---- MODULE Spec2Model ----
(***************************************************************************)
(* A model of the vssh shell (src/vssh/src/bin/vssh.rs): the main loop,    *)
(* the builtins, redirection parsing, single commands, pipelines, the      *)
(* background job table, and the child processes, pipes and files of the   *)
(* operating system the shell runs on.                                     *)
(*                                                                         *)
(* A command line is a record [bg, segs]: bg is the trailing " &" and segs *)
(* the segments between '|', each a sequence of whitespace-separated       *)
(* tokens.  A path is the sequence of its components (<<>> is "/").  An    *)
(* Option<T> is a sequence of length 0 (None) or 1 (Some).                 *)
(***************************************************************************)
EXTENDS Integers, Sequences, FiniteSets, TLC

\* ------------------------------------------------------------------ bounds
\* Lines of one segment that start a program, in one session.
MaxLines == 2
\* Segments of one command line.
MaxStages == 3
\* Units a pipe buffers before a writer blocks.
PipeCap == 1
\* Characters of a command given as text.
MaxText == 5

VARIABLES
    current_dir,      \* Shell.current_dir
    previous_dir,     \* Shell.previous_dir: Option<PathBuf>
    env_vars,         \* Shell.env_vars
    running,          \* Shell.running
    background_pids,  \* Shell.background_pids
    osCwd,            \* the working directory of the shell process
    pc,               \* where the shell process is
    cmdline,          \* the command line being executed
    idx,              \* process_piped_commands: the loop index i, from 1
    previous_stdout,  \* process_piped_commands: 0 (None) or a pipe's id
    processes,        \* the children the current line has spawned, in order
    waiting,          \* the children the shell has still to wait for
    procs,            \* the operating system's process table, by pid
    pipes,            \* the operating system's pipes, by id
    files,            \* the regular files redirections name
    errs,             \* what the current line printed to standard error
    opened,           \* the files the current line opened
    nlines,           \* the lines read so far that start programs
    eof,              \* the input stream is at its end: read_line gives nothing
    txCommand,        \* parse_redirections: command, as characters
    txWords,          \* parse_redirections: parts, what shell_words::split gave
    txCmd,            \* execute_external_command: command, the joined cmd_parts
    txExpanded,       \* execute_external_command: expanded
    txParts           \* execute_external_command: parts, the argument vector

vars == <<current_dir, previous_dir, env_vars, running, background_pids, osCwd,
          pc, cmdline, idx, previous_stdout, processes, waiting, procs,
          pipes, files, errs, opened, nlines, eof,
          txCommand, txWords, txCmd, txExpanded, txParts>>

shellVars == <<current_dir, previous_dir, env_vars, running, background_pids, osCwd>>
loopVars == <<cmdline, idx, previous_stdout, processes, waiting, nlines>>
osVars == <<procs, pipes, files>>
textVars == <<txCommand, txWords, txCmd, txExpanded, txParts>>

\* ------------------------------------------------------ the file system
Root == <<>>
Home == <<"home">>
Tmp == <<"tmp">>
\* A directory the shell may not enter: chdir fails there.
Locked == <<"locked">>
\* The existing directories, by canonical path.
Directories == {Root, Home, Tmp, Locked}
\* An existing path that is no directory.
PlainFile == <<"file">>
\* A symbolic link to Tmp.
Link == <<"lnk">>

\* The paths a redirection can name as a regular file: "g" exists when the
\* shell starts, "f" does not.
FileNames == {"f", "g"}

\* std::fs::canonicalize: <<>> (Err) or <<the canonical path>>.
canonicalize(p) ==
    IF p = Link THEN <<Tmp>>
    ELSE IF p \in Directories \cup {PlainFile} THEN <<p>>
    ELSE <<>>

is_dir(p) == p \in Directories

\* env::set_current_dir succeeds.
chdir_ok(p) == p \in Directories /\ p # Locked

\* What the tokens cd is given stand for: abs is Path::is_absolute.
PathOf(tok) ==
    CASE tok = "/tmp" -> [abs |-> TRUE, comps |-> Tmp]
      [] tok = "/home" -> [abs |-> TRUE, comps |-> Home]
      [] tok = "/lnk" -> [abs |-> TRUE, comps |-> Link]
      [] tok = "/file" -> [abs |-> TRUE, comps |-> PlainFile]
      [] tok = "/locked" -> [abs |-> TRUE, comps |-> Locked]
      [] tok = "/missing" -> [abs |-> TRUE, comps |-> <<"missing">>]
      [] OTHER -> [abs |-> FALSE, comps |-> <<tok>>]

\* ------------------------------------------------------------ the programs
\* The executables on the search path: "a" and "b" write and read nothing,
\* "cat" copies its standard input to its standard output up to end-of-file.
Programs == {"a", "b", "cat"}

\* What a started program will write.
Script(prog) ==
    CASE prog = "a" -> [k \in 1..(PipeCap + 1) |-> "a"]
      [] prog = "b" -> <<"b">>
      [] OTHER -> <<>>

ReadsInput(prog) == prog = "cat"

\* --------------------------------------------------------------- tokens
None == <<>>
Some(x) == <<x>>

\* The shell-local variable names and the process environment (env::var).
VarNames == {"X", "Y"}
ProcessEnv == [n \in VarNames |-> IF n = "X" THEN Some("a") ELSE None]

\* The tokens that hold '=' and do not start with it, as key and value.
AssignTokens == {"X=a", "X=b", "X=/tmp", "Y=b"}
AssignKey(tok) == IF tok = "Y=b" THEN "Y" ELSE "X"

\* An assignment that keeps the whole token as the value.
AssignWhole(tok) == tok

AssignValue(tok) ==
    IF tok = "X=a" THEN "a" ELSE IF tok = "X=/tmp" THEN "/tmp" ELSE "b"

\* The tokens that are one "$NAME" reference, and the NAME.
VarRefs == {"$X", "$Y"}
VarName(tok) == IF tok = "$Y" THEN "Y" ELSE "X"

\* A loop that keeps the first target given for a stream.
RECURSIVE ParseFirstWins(_, _, _)
ParseFirstWins(parts, i, acc) ==
    IF i > Len(parts) THEN acc
    ELSE IF parts[i] = ">" THEN
        IF i + 1 <= Len(parts)
        THEN ParseFirstWins(parts, i + 2,
                 IF acc.stdout = None THEN [acc EXCEPT !.stdout = Some(parts[i + 1])]
                 ELSE acc)
        ELSE ParseFirstWins(parts, i + 1, acc)
    ELSE IF parts[i] = "<" THEN
        IF i + 1 <= Len(parts)
        THEN ParseFirstWins(parts, i + 2,
                 IF acc.stdin = None THEN [acc EXCEPT !.stdin = Some(parts[i + 1])]
                 ELSE acc)
        ELSE ParseFirstWins(parts, i + 1, acc)
    ELSE ParseFirstWins(parts, i + 1, [acc EXCEPT !.cmd = Append(@, parts[i])])

\* parse_redirections: the loop from index i, acc the triple so far.
RECURSIVE ParseFrom(_, _, _)
ParseFrom(parts, i, acc) ==
    IF i > Len(parts) THEN acc
    ELSE IF parts[i] = ">" THEN
        IF i + 1 <= Len(parts)
        THEN ParseFrom(parts, i + 2, [acc EXCEPT !.stdout = Some(parts[i + 1])])
        ELSE ParseFrom(parts, i + 1, acc)
    ELSE IF parts[i] = "<" THEN
        IF i + 1 <= Len(parts)
        THEN ParseFrom(parts, i + 2, [acc EXCEPT !.stdin = Some(parts[i + 1])])
        ELSE ParseFrom(parts, i + 1, acc)
    ELSE ParseFrom(parts, i + 1, [acc EXCEPT !.cmd = Append(@, parts[i])])

\* parse_redirections(command): (cmd_parts, stdin, stdout).
parse_redirections(parts) ==
    ParseFrom(parts, 1, [cmd |-> <<>>, stdin |-> None, stdout |-> None])

\* expand_variables on one token: the words it leaves, given the local table.
ExpandToken(tok, table) ==
    IF tok \in VarRefs THEN
        IF table[VarName(tok)] # None THEN table[VarName(tok)]
        ELSE ProcessEnv[VarName(tok)]
    ELSE Some(tok)

RECURSIVE ExpandFrom(_, _, _)
ExpandFrom(cmd, i, table) ==
    IF i > Len(cmd) THEN <<>>
    ELSE ExpandToken(cmd[i], table) \o ExpandFrom(cmd, i + 1, table)

\* expand_variables followed by split_whitespace: the argument vector.
expand_variables(cmd, table) == ExpandFrom(cmd, 1, table)

\* ------------------------------------------------------- the command lines
RedirOps == {"<", ">", ">>", "2>", "2>>", "&>", "&>>"}

BuiltinSegs ==
    {<<"cd">>, <<"cd", "~">>, <<"cd", "-">>, <<"cd", "/tmp">>, <<"cd", "tmp">>,
     <<"cd", "/lnk">>, <<"cd", "/file">>, <<"cd", "/missing">>,
     <<"cd", "/locked">>, <<"cd", "$X">>, <<"pwd">>, <<"exit">>, <<"X=b", "a">>}
        \cup {<<tok>> : tok \in AssignTokens}

ExternalSegs ==
    {<<"a">>, <<"b">>, <<"cat">>, <<"nosuch">>, <<"$X">>,
     <<"a", ">", "f">>, <<"cat", "<", "f">>, <<"a", ">">>, <<"a", "<">>,
     <<"a", ">", "/tmp">>, <<"nosuch", ">", "f">>}
    \cup {<<"b", op, "f">> : op \in RedirOps}

\* The segments read with a trailing " &" as well.
BackgroundSegs == {<<"a">>, <<"b">>, <<"nosuch">>, <<"b", ">", "f">>}

PipeSegs ==
    {<<>>, <<"a">>, <<"cat">>, <<"nosuch">>}

\* The segments of the pipelines that are written with redirections.
RedirSegs ==
    {<<>>, <<"a">>, <<"b", ">", "f">>, <<"cat", "<", "f">>, <<"cat", "<", "g">>}

\* The sequences over S of length lo..hi.
SeqsOf(S, lo, hi) == UNION {[1..n -> S] : n \in lo..hi}

BuiltinLines == {[bg |-> b, segs |-> <<s>>] : b \in BOOLEAN, s \in BuiltinSegs}
ExternalLines ==
    {[bg |-> FALSE, segs |-> <<s>>] : s \in ExternalSegs}
        \cup {[bg |-> TRUE, segs |-> <<s>>] : s \in BackgroundSegs}
PipeLines == {[bg |-> b, segs |-> ss] :
                    b \in BOOLEAN, ss \in SeqsOf(PipeSegs, 2, MaxStages)}
\* The assignments, and a builtin line for each other field of the shell.
AssignLines ==
    {[bg |-> b, segs |-> <<<<tok>>>>] : b \in BOOLEAN, tok \in AssignTokens}
        \cup {[bg |-> FALSE, segs |-> <<s>>] :
                  s \in {<<"X=b", "a">>, <<"cd", "/tmp">>, <<"exit">>}}

\* The single commands that refer to variables.
VarLines ==
    {[bg |-> FALSE, segs |-> <<s>>] : s \in {<<"$X">>, <<"$Y">>, <<"b", "$X">>}}
        \cup {[bg |-> TRUE, segs |-> <<<<"$X">>>>]}
\* The single commands written with several redirections of one stream.
MultiSegs ==
    {<<"a", ">", "f", ">", "g">>, <<"a", ">", "g", ">", "f">>,
     <<"b", ">", "f", ">", "f">>, <<"cat", "<", "f", "<", "g">>,
     <<"cat", "<", "g", "<", "f">>, <<"cat", "<", "f", ">", "f", "<", "g", ">", "g">>,
     <<"nosuch", ">", "g", ">", "f">>}
MultiLines == {[bg |-> b, segs |-> <<s>>] : b \in BOOLEAN, s \in MultiSegs}
RedirLines == {[bg |-> b, segs |-> ss] :
                    b \in BOOLEAN, ss \in SeqsOf(RedirSegs, 2, MaxStages)}
Lines == BuiltinLines \cup ExternalLines \cup VarLines \cup PipeLines \cup RedirLines
             \cup MultiLines

NoLine == [bg |-> FALSE, segs |-> <<>>]

\* ------------------------------------------------------------------- Init
\* Shell::new, with the shell started in the root directory, but for the
\* variable table, and the operating system with no child, pipe or file.
InitShell ==
    /\ current_dir = Root
    /\ osCwd = current_dir
    /\ previous_dir = None
    /\ running = TRUE
    /\ background_pids = <<>>
    /\ cmdline = NoLine
    /\ idx = 0
    /\ previous_stdout = 0
    /\ processes = <<>>
    /\ waiting = <<>>
    /\ procs = <<>>
    /\ pipes = <<>>
    /\ files = [n \in FileNames |->
                    IF n = "g" THEN [exists |-> TRUE, data |-> <<"g">>]
                    ELSE [exists |-> FALSE, data |-> <<>>]]
    /\ errs = {}
    /\ opened = {}
    /\ nlines = 0
    /\ eof = FALSE
    /\ txWords = <<>>
    /\ txCmd = <<>>
    /\ txExpanded = <<>>
    /\ txParts = <<>>

\* The shell as main starts it, at the head of Shell::run.
Init ==
    /\ InitShell
    /\ env_vars = [n \in VarNames |-> None]
    /\ pc = "loop"
    /\ txCommand = <<>>

\* ----------------------------------------------------- the job table poll
Terminated(p) == procs[p].st # "running"

\* waitpid(pid, WNOHANG) as check_background_processes matches it: TRUE for
\* Ok(WaitStatus::Exited), which a child not yet reaped that exited gives.
PolledExited(p) == procs[p].st = "exited" /\ ~procs[p].reaped

\* check_background_processes: the pids pushed to finished.
Finished(pids) == {pids[k] : k \in {j \in 1..Len(pids) : PolledExited(pids[j])}}

\* waitpid reaps every terminated child it is asked about.
ReapAll(ps, S) ==
    [p \in DOMAIN ps |->
        IF p \in S /\ ps[p].st # "running" THEN [ps[p] EXCEPT !.reaped = TRUE]
        ELSE ps[p]]

SeqSet(s) == {s[k] : k \in 1..Len(s)}

\* Shell::run, the head of one iteration: the loop test, the poll, the prompt.
Prompt ==
    /\ pc = "loop"
    /\ UNCHANGED <<eof, textVars>>
    /\ running
    /\ background_pids' =
           SelectSeq(background_pids, LAMBDA p : p \notin Finished(background_pids))
    /\ procs' = ReapAll(procs, SeqSet(background_pids))
    /\ pc' = "read"
    /\ UNCHANGED <<current_dir, previous_dir, env_vars, running, osCwd,
                   loopVars, pipes, files, errs, opened>>

\* A loop that tests running after the body only: it prompts once more.
LoopOnceMore ==
    /\ pc = "loop"
    /\ ~running
    /\ pc' = "read"
    /\ UNCHANGED <<shellVars, loopVars, osVars, errs, opened, eof, textVars>>

\* Shell::run: the loop test fails after exit, run returns and main ends.
LoopExit ==
    /\ pc = "loop"
    /\ UNCHANGED <<eof, textVars>>
    /\ ~running
    /\ pc' = "done"
    /\ UNCHANGED <<shellVars, loopVars, osVars, errs, opened>>

\* Shell::run: read_line fails, or the line is empty after trim: continue.
ReadNothing ==
    /\ pc = "read"
    /\ UNCHANGED <<eof, textVars>>
    /\ pc' = "loop"
    /\ cmdline' = NoLine
    /\ processes' = <<>>
    /\ errs' = {}
    /\ opened' = {}
    /\ UNCHANGED <<shellVars, idx, previous_stdout, waiting, nlines, osVars>>

\* Shell::run: read_line finds the input stream at its end, or failing for
\* good: it returns Ok(0) or Err, as every later call will, and the loop goes on.
ReadEof ==
    /\ pc = "read"
    /\ ~eof
    /\ eof' = TRUE
    /\ pc' = "loop"
    /\ cmdline' = NoLine
    /\ processes' = <<>>
    /\ errs' = {}
    /\ opened' = {}
    /\ UNCHANGED <<shellVars, idx, previous_stdout, waiting, nlines, osVars, textVars>>

\* --------------------------------------------------------------- builtins
IsBuiltinWord(tok) == tok \in {"cd", "exit", "pwd"}

\* process_command on a line the builtins take: parts is not empty and
\* parts[0] is an assignment or one of cd, exit, pwd.
TakenByBuiltin(seg) ==
    /\ seg # <<>>
    /\ (seg[1] \in AssignTokens \/ IsBuiltinWord(seg[1]))

\* change_directory, the match on dir: Some(new_dir), or None when there is
\* no previous directory.
cd_new_dir(dir, cur, prev) ==
    IF dir = None \/ dir = Some("~") THEN Some(Home)
    ELSE IF dir = Some("-") THEN prev
    ELSE LET p == PathOf(dir[1])
         IN  IF p.abs THEN Some(p.comps) ELSE Some(cur \o p.comps)

\* change_directory: the fields and the working directory it leaves, and
\* what it prints to standard error.
change_directory(dir, cur, prev, os) ==
    LET nd == cd_new_dir(dir, cur, prev)
        canonical == canonicalize(nd[1])
    IN  IF nd = None THEN
            [cur |-> cur, prev |-> prev, os |-> os, err |-> {"No previous directory"}]
        ELSE IF canonical = None THEN
            [cur |-> cur, prev |-> prev, os |-> os, err |-> {"Invalid path"}]
        ELSE IF ~is_dir(canonical[1]) THEN
            [cur |-> cur, prev |-> prev, os |-> os, err |-> {"Not a directory"}]
        ELSE IF chdir_ok(canonical[1]) THEN
            [cur |-> canonical[1], prev |-> Some(cur), os |-> canonical[1], err |-> {}]
        ELSE
            [cur |-> canonical[1], prev |-> Some(cur), os |-> os,
             err |-> {"Failed to change directory"}]

\* process_command: a line of one segment that a builtin takes.
Builtin(l) ==
    LET seg == l.segs[1]
        dir == IF Len(seg) > 1 THEN Some(seg[2]) ELSE None
        cd == change_directory(dir, current_dir, previous_dir, osCwd)
    IN  /\ pc = "read"
        /\ ~eof
        /\ UNCHANGED <<eof, textVars>>
        /\ Len(l.segs) = 1
        /\ TakenByBuiltin(seg)
        /\ pc' = "loop"
        /\ opened' = {}
        /\ IF seg[1] \in AssignTokens THEN
               /\ env_vars' = [env_vars EXCEPT ![AssignKey(seg[1])] = Some(AssignValue(seg[1]))]
               /\ errs' = {}
               /\ UNCHANGED <<current_dir, previous_dir, osCwd, running>>
           ELSE IF seg[1] = "cd" THEN
               /\ current_dir' = cd.cur
               /\ previous_dir' = cd.prev
               /\ osCwd' = cd.os
               /\ errs' = cd.err
               /\ UNCHANGED <<env_vars, running>>
           ELSE IF seg[1] = "exit" THEN
               /\ running' = FALSE
               /\ errs' = {}
               /\ UNCHANGED <<current_dir, previous_dir, osCwd, env_vars>>
           ELSE
               /\ errs' = {}
               /\ UNCHANGED <<current_dir, previous_dir, osCwd, env_vars, running>>
        /\ cmdline' = l
        /\ processes' = <<>>
        /\ UNCHANGED <<background_pids, idx, previous_stdout, waiting, nlines, osVars>>

\* ------------------------------------------------------ processes and files
Found(prog) == prog \in Programs

\* Command::spawn succeeds: the program is found and the child can enter the
\* directory Command::current_dir names.
SpawnOk(prog, dir) == Found(prog) /\ chdir_ok(dir)

\* A child as Command::spawn starts it.
NewProc(argv, inK, inP, outK, outF, outP, bg) ==
    [argv |-> argv, inK |-> inK, inP |-> inP, outK |-> outK, outF |-> outF,
     outP |-> outP, off |-> 0, outq |-> Script(argv[1]), st |-> "running",
     reaped |-> FALSE, bg |-> bg]

\* File::open succeeds.
CanOpenInput(n) == n \in FileNames /\ files[n].exists

\* OpenOptions write, create, truncate succeeds.
CanOpenOutput(n) == n \in FileNames

\* The files after OpenOptions::new().write(true).create(true).truncate(true).
OpenOutput(fs, n) == [fs EXCEPT ![n] = [exists |-> TRUE, data |-> <<>>]]

\* A write of unit u at offset off.
WriteAt(data, off, u) ==
    IF off < Len(data) THEN [data EXCEPT ![off + 1] = u]
    ELSE data \o [k \in 1..(off - Len(data)) |-> "0"] \o <<u>>

\* The pipes once the shell process holds none of their ends.
ParentClosed(ps) == [k \in DOMAIN ps |-> [ps[k] EXCEPT !.parentRead = FALSE]]

\* The pipes once the shell process drops the read end q (0: none).
DropRead(ps, q) ==
    [k \in DOMAIN ps |-> IF k = q THEN [ps[k] EXCEPT !.parentRead = FALSE] ELSE ps[k]]

\* execute_external_command, reached from process_command.
External(l) ==
    LET seg == l.segs[1]
        r == parse_redirections(seg)
        parts == expand_variables(r.cmd, env_vars)
        inOk == r.stdin = None \/ CanOpenInput(r.stdin[1])
        outOk == r.stdout = None \/ CanOpenOutput(r.stdout[1])
        pid == Len(procs) + 1
        child == NewProc(parts,
                         IF r.stdin = None THEN "tty" ELSE "file", 0,
                         IF r.stdout = None THEN "tty" ELSE "file",
                         IF r.stdout = None THEN "" ELSE r.stdout[1], 0, l.bg)
    IN  /\ pc = "read"
        /\ ~eof
        /\ UNCHANGED <<eof, textVars>>
        /\ Len(l.segs) = 1
        /\ seg # <<>>
        /\ ~TakenByBuiltin(seg)
        /\ nlines < MaxLines
        /\ nlines' = nlines + 1
        /\ cmdline' = l
        /\ UNCHANGED <<current_dir, previous_dir, env_vars, running, osCwd,
                       idx, previous_stdout, waiting, pipes>>
        /\ IF parts = <<>> THEN
               /\ pc' = "loop"
               /\ errs' = {}
               /\ opened' = {}
               /\ processes' = <<>>
               /\ UNCHANGED <<background_pids, procs, files>>
           ELSE IF ~inOk THEN
               /\ pc' = "loop"
               /\ errs' = {"Failed to open input file"}
               /\ opened' = {}
               /\ processes' = <<>>
               /\ UNCHANGED <<background_pids, procs, files>>
           ELSE IF ~outOk THEN
               /\ pc' = "loop"
               /\ errs' = {"Failed to open output file"}
               /\ opened' = SeqSet(r.stdin)
               /\ processes' = <<>>
               /\ UNCHANGED <<background_pids, procs, files>>
           ELSE
               /\ opened' = SeqSet(r.stdin) \cup SeqSet(r.stdout)
               /\ files' = IF r.stdout = None THEN files ELSE OpenOutput(files, r.stdout[1])
               /\ IF ~SpawnOk(parts[1], current_dir) THEN
                      /\ pc' = "loop"
                      /\ errs' = {"Failed to execute command"}
                      /\ processes' = <<>>
                      /\ UNCHANGED <<background_pids, procs>>
                  ELSE
                      /\ procs' = Append(procs, child)
                      /\ errs' = {}
                      /\ processes' = <<pid>>
                      /\ IF l.bg THEN
                             /\ background_pids' = Append(background_pids, pid)
                             /\ pc' = "loop"
                         ELSE
                             /\ pc' = "waitone"
                             /\ UNCHANGED background_pids

\* execute_external_command: child.wait() returns once the child has
\* terminated, with its status or with an error that is printed.
WaitOne ==
    /\ pc = "waitone"
    /\ UNCHANGED <<eof, textVars>>
    /\ Terminated(processes[1])
    /\ procs' = ReapAll(procs, {processes[1]})
    /\ pc' = "loop"
    /\ \E ok \in BOOLEAN :
           errs' = IF ok THEN errs ELSE errs \cup {"Failed to wait for command"}
    /\ UNCHANGED <<shellVars, loopVars, pipes, files, opened>>

\* -------------------------------------------------------------- pipelines
\* execute_command: a line of several segments enters process_piped_commands.
\* A pipeline is the only line of its session that starts programs.
StartPipeline(l) ==
    /\ pc = "read"
    /\ ~eof
    /\ UNCHANGED <<eof, textVars>>
    /\ Len(l.segs) > 1
    /\ nlines = 0
    /\ nlines' = MaxLines
    /\ pc' = "stage"
    /\ cmdline' = l
    /\ idx' = 1
    /\ previous_stdout' = 0
    /\ processes' = <<>>
    /\ errs' = {}
    /\ opened' = {}
    /\ UNCHANGED <<shellVars, waiting, osVars>>

\* A foreground branch that waits for the last child alone.
WaitLastOnly(ps) == IF ps = <<>> THEN <<>> ELSE <<ps[Len(ps)]>>

\* process_piped_commands: the children the foreground branch waits for.
WaitList(ps) == ps

\* process_piped_commands: the pids the background branch pushes.
JobPids(ps) == IF ps = <<>> THEN <<>> ELSE <<ps[Len(ps)]>>

\* process_piped_commands: stage i reads the file its segment names.
StdinFromFile(i, r) == i = 1 /\ r.stdin # None

\* A stage that writes the file its segment names at every position.
StdoutToFileAnywhere(i, n, r) == r.stdout # None

\* process_piped_commands: stage i of n writes the file its segment names.
StdoutToFile(i, n, r) == i = n /\ r.stdout # None

\* process_piped_commands: one iteration of the loop over the segments.
SpawnStage ==
    LET n == Len(cmdline.segs)
        seg == cmdline.segs[idx]
        r == parse_redirections(seg)
        parts == expand_variables(r.cmd, env_vars)
        first == idx = 1
        last == idx = n
        inFile == StdinFromFile(idx, r)
        outFile == StdoutToFile(idx, n, r)
        inOk == ~inFile \/ CanOpenInput(r.stdin[1])
        outOk == ~outFile \/ CanOpenOutput(r.stdout[1])
        takes == ~inFile /\ previous_stdout # 0
        pid == Len(procs) + 1
        q == Len(pipes) + 1
        child == NewProc(parts,
                         IF inFile THEN "file" ELSE IF takes THEN "pipe" ELSE "tty",
                         IF takes THEN previous_stdout ELSE 0,
                         IF outFile THEN "file" ELSE IF last THEN "tty" ELSE "pipe",
                         IF outFile THEN r.stdout[1] ELSE "",
                         IF outFile \/ last THEN 0 ELSE q,
                         cmdline.bg)
        handed == [k \in DOMAIN pipes |->
                      IF takes /\ k = previous_stdout
                      THEN [pipes[k] EXCEPT !.parentRead = FALSE, !.reader = pid]
                      ELSE pipes[k]]
    IN  /\ pc = "stage"
        /\ UNCHANGED <<eof, textVars>>
        /\ idx <= n
        /\ UNCHANGED <<shellVars, cmdline, waiting, nlines>>
        /\ IF parts = <<>> THEN
               /\ idx' = idx + 1
               /\ UNCHANGED <<pc, previous_stdout, processes, osVars, errs, opened>>
           ELSE IF ~inOk THEN
               \* std::process::exit(1)
               /\ pc' = "dead"
               /\ errs' = errs \cup {"Failed to open input file"}
               /\ pipes' = ParentClosed(pipes)
               /\ UNCHANGED <<idx, previous_stdout, processes, procs, files, opened>>
           ELSE IF ~outOk THEN
               /\ pc' = "dead"
               /\ errs' = errs \cup {"Failed to open output file"}
               /\ opened' = opened \cup (IF inFile THEN SeqSet(r.stdin) ELSE {})
               /\ pipes' = ParentClosed(pipes)
               /\ UNCHANGED <<idx, previous_stdout, processes, procs, files>>
           ELSE
               /\ opened' = opened \cup (IF inFile THEN SeqSet(r.stdin) ELSE {})
                                   \cup (IF outFile THEN SeqSet(r.stdout) ELSE {})
               /\ files' = IF outFile THEN OpenOutput(files, r.stdout[1]) ELSE files
               /\ IF ~SpawnOk(parts[1], current_dir) THEN
                      /\ pc' = "dead"
                      /\ errs' = errs \cup {"Failed to execute command"}
                      /\ pipes' = ParentClosed(pipes)
                      /\ UNCHANGED <<idx, previous_stdout, processes, procs>>
                  ELSE
                      /\ procs' = Append(procs, child)
                      /\ pipes' = IF last THEN handed
                                  ELSE Append(handed, [buf |-> <<>>, parentRead |-> TRUE,
                                                       reader |-> 0, writer |-> pid])
                      /\ previous_stdout' = IF last THEN (IF takes THEN 0 ELSE previous_stdout)
                                            ELSE q
                      /\ processes' = Append(processes, pid)
                      /\ idx' = idx + 1
                      /\ UNCHANGED <<pc, errs>>

\* process_piped_commands after the loop: the foreground branch starts to wait;
\* the background branch records the job and returns, dropping previous_stdout.
PipelineEnd ==
    /\ pc = "stage"
    /\ UNCHANGED <<eof, textVars>>
    /\ idx > Len(cmdline.segs)
    /\ IF ~cmdline.bg THEN
           /\ pc' = "wait"
           /\ waiting' = WaitList(processes)
           /\ UNCHANGED <<background_pids, pipes, previous_stdout>>
       ELSE
           /\ pc' = "loop"
           /\ background_pids' = background_pids \o JobPids(processes)
           /\ pipes' = DropRead(pipes, previous_stdout)
           /\ previous_stdout' = 0
           /\ UNCHANGED waiting
    /\ UNCHANGED <<current_dir, previous_dir, env_vars, running, osCwd, cmdline,
                   idx, processes, nlines, procs, files, errs, opened>>

\* process_piped_commands: child.wait() for the next child returns.
WaitPipe ==
    /\ pc = "wait"
    /\ UNCHANGED <<eof, textVars>>
    /\ waiting # <<>>
    /\ Terminated(Head(waiting))
    /\ procs' = ReapAll(procs, {Head(waiting)})
    /\ waiting' = Tail(waiting)
    /\ UNCHANGED <<shellVars, pc, cmdline, idx, previous_stdout, processes,
                   pipes, files, errs, opened, nlines>>

\* process_piped_commands returns from the foreground branch, dropping
\* previous_stdout.
WaitDone ==
    /\ pc = "wait"
    /\ UNCHANGED <<eof, textVars>>
    /\ waiting = <<>>
    /\ pc' = "loop"
    /\ pipes' = DropRead(pipes, previous_stdout)
    /\ previous_stdout' = 0
    /\ UNCHANGED <<shellVars, cmdline, idx, processes, waiting, nlines, procs,
                   files, errs, opened>>

\* ------------------------------------------------------ the child processes
\* Some process holds the read end of pipe q.
HasReader(q) ==
    IF pipes[q].reader = 0 THEN pipes[q].parentRead
    ELSE pipes[q].parentRead \/ procs[pipes[q].reader].st = "running"

\* Some process holds the write end of pipe q.
HasWriter(q) == procs[pipes[q].writer].st = "running"

\* A child writes the next unit of its output; a write to a pipe nobody reads
\* kills it (SIGPIPE), a write to a full pipe blocks.
ChildWrite(p) ==
    LET c == procs[p]
        u == Head(c.outq)
    IN  /\ c.st = "running"
        /\ UNCHANGED <<eof, textVars>>
        /\ c.outq # <<>>
        /\ UNCHANGED <<shellVars, pc, loopVars, errs, opened>>
        /\ IF c.outK = "tty" THEN
               /\ procs' = [procs EXCEPT ![p].outq = Tail(@)]
               /\ UNCHANGED <<pipes, files>>
           ELSE IF c.outK = "file" THEN
               /\ procs' = [procs EXCEPT ![p].outq = Tail(@), ![p].off = @ + 1]
               /\ files' = [files EXCEPT ![c.outF].data = WriteAt(@, c.off, u)]
               /\ UNCHANGED pipes
           ELSE IF ~HasReader(c.outP) THEN
               /\ procs' = [procs EXCEPT ![p].st = "signaled"]
               /\ UNCHANGED <<pipes, files>>
           ELSE
               /\ Len(pipes[c.outP].buf) < PipeCap
               /\ procs' = [procs EXCEPT ![p].outq = Tail(@)]
               /\ pipes' = [pipes EXCEPT ![c.outP].buf = Append(@, u)]
               /\ UNCHANGED files

\* A child that copies its input reads the next unit from its pipe.
ChildRead(p) ==
    LET c == procs[p]
    IN  /\ c.st = "running"
        /\ UNCHANGED <<eof, textVars>>
        /\ ReadsInput(c.argv[1])
        /\ c.inK = "pipe"
        /\ c.outq = <<>>
        /\ pipes[c.inP].buf # <<>>
        /\ procs' = [procs EXCEPT ![p].outq = <<Head(pipes[c.inP].buf)>>]
        /\ pipes' = [pipes EXCEPT ![c.inP].buf = Tail(@)]
        /\ UNCHANGED <<shellVars, pc, loopVars, files, errs, opened>>

\* The child's standard input is at end-of-file.
AtEof(p) ==
    IF procs[p].inK = "pipe"
    THEN pipes[procs[p].inP].buf = <<>> /\ ~HasWriter(procs[p].inP)
    ELSE TRUE

\* A child exits once it has written its output and, if it reads its input,
\* read it to end-of-file.
ChildExit(p) ==
    LET c == procs[p]
    IN  /\ c.st = "running"
        /\ UNCHANGED <<eof, textVars>>
        /\ c.outq = <<>>
        /\ ReadsInput(c.argv[1]) => AtEof(p)
        /\ procs' = [procs EXCEPT ![p].st = "exited"]
        /\ UNCHANGED <<shellVars, pc, loopVars, pipes, files, errs, opened>>

ChildStep == \E p \in DOMAIN procs : ChildWrite(p) \/ ChildRead(p) \/ ChildExit(p)

\* ------------------------------------------------- the text of a command
\* The characters a command is written with.
Chars == {"a", " ", "$", "X", "Y", "'"}

is_alphanumeric(c) == c \in {"a", "b", "X", "Y"}
is_whitespace(c) == c = " "

\* The strings over Chars of length lo..hi.
Strings(lo, hi) == UNION {[1..n -> Chars] : n \in lo..hi}

\* The commands execute_command hands on: trimmed and not empty.
Commands ==
    {t \in Strings(1, MaxText) : ~is_whitespace(t[1]) /\ ~is_whitespace(t[Len(t)])}

\* The characters of a value of the variable table or of the environment.
CharsOf(value) == <<value>>

\* shell_words::split from character i on: st is the state of its machine,
\* word the word so far, words the words so far; None for Err(ParseError).
RECURSIVE SplitWords(_, _, _, _, _)
SplitWords(t, i, st, word, words) ==
    IF i > Len(t) THEN
        IF st = "Delimiter" THEN Some(words)
        ELSE IF st = "Unquoted" THEN Some(Append(words, word))
        ELSE None
    ELSE IF st = "SingleQuoted" THEN
        IF t[i] = "'" THEN SplitWords(t, i + 1, "Unquoted", word, words)
        ELSE SplitWords(t, i + 1, "SingleQuoted", Append(word, t[i]), words)
    ELSE IF t[i] = "'" THEN SplitWords(t, i + 1, "SingleQuoted", word, words)
    ELSE IF is_whitespace(t[i]) THEN
        IF st = "Unquoted"
        THEN SplitWords(t, i + 1, "Delimiter", <<>>, Append(words, word))
        ELSE SplitWords(t, i + 1, "Delimiter", <<>>, words)
    ELSE SplitWords(t, i + 1, "Unquoted", Append(word, t[i]), words)

\* shell_words::split(command).unwrap_or_default()
shell_words_split(t) ==
    LET r == SplitWords(t, 1, "Delimiter", <<>>, <<>>)
    IN  IF r = None THEN <<>> ELSE r[1]

\* parse_redirections on words of characters: the word is ">" or "<".
IsOperator(w) == w = <<">">> \/ w = <<"<">>

\* parse_redirections on words of characters: cmd_parts, from word i on.
RECURSIVE CmdParts(_, _)
CmdParts(words, i) ==
    IF i > Len(words) THEN <<>>
    ELSE IF IsOperator(words[i])
    THEN CmdParts(words, IF i + 1 <= Len(words) THEN i + 2 ELSE i + 1)
    ELSE <<words[i]>> \o CmdParts(words, i + 1)

\* cmd_parts.join(" "), from word i on.
RECURSIVE Join(_, _)
Join(words, i) ==
    IF i > Len(words) THEN <<>>
    ELSE IF i = Len(words) THEN words[i]
    ELSE words[i] \o <<" ">> \o Join(words, i + 1)

\* expand_variables: the index after the name that starts at character i.
RECURSIVE NameEnd(_, _)
NameEnd(t, i) ==
    IF i > Len(t) THEN i
    ELSE IF is_alphanumeric(t[i]) THEN NameEnd(t, i + 1)
    ELSE i

\* A lookup that asks the process environment before the local table.
LookupEnvFirst(var, table) ==
    LET known == Len(var) = 1 /\ var[1] \in VarNames
    IN  IF known /\ ProcessEnv[var[1]] # None THEN CharsOf(ProcessEnv[var[1]][1])
        ELSE IF known /\ table[var[1]] # None THEN CharsOf(table[var[1]][1])
        ELSE <<>>

\* expand_variables: what is pushed for the name var: the local value, else
\* the value of the process environment, else nothing.
Lookup(var, table) ==
    LET known == Len(var) = 1 /\ var[1] \in VarNames
    IN  IF known /\ table[var[1]] # None THEN CharsOf(table[var[1]][1])
        ELSE IF known /\ ProcessEnv[var[1]] # None THEN CharsOf(ProcessEnv[var[1]][1])
        ELSE <<>>

\* expand_variables on characters, from character i on.
RECURSIVE ExpandChars(_, _, _)
ExpandChars(t, i, table) ==
    IF i > Len(t) THEN <<>>
    ELSE IF t[i] = "$" THEN
        Lookup(SubSeq(t, i + 1, NameEnd(t, i + 1) - 1), table)
            \o ExpandChars(t, NameEnd(t, i + 1), table)
    ELSE <<t[i]>> \o ExpandChars(t, i + 1, table)

\* str::split_whitespace, from character i on, word the word so far.
RECURSIVE SplitWs(_, _, _)
SplitWs(t, i, word) ==
    IF i > Len(t) THEN (IF word = <<>> THEN <<>> ELSE <<word>>)
    ELSE IF is_whitespace(t[i])
    THEN (IF word = <<>> THEN <<>> ELSE <<word>>) \o SplitWs(t, i + 1, <<>>)
    ELSE SplitWs(t, i + 1, Append(word, t[i]))

split_whitespace(t) == SplitWs(t, 1, <<>>)

\* A single command given as text enters parse_redirections, with some
\* variables assigned before.
InitText ==
    /\ InitShell
    /\ env_vars \in [VarNames -> {None, Some("b")}]
    /\ pc = "parse"
    /\ txCommand \in Commands

\* parse_redirections: the words of the command, and cmd_parts joined.
ParseText ==
    /\ pc = "parse"
    /\ txWords' = shell_words_split(txCommand)
    /\ txCmd' = Join(CmdParts(txWords', 1), 1)
    /\ pc' = "expand"
    /\ UNCHANGED <<shellVars, loopVars, osVars, errs, opened, eof,
                   txCommand, txExpanded, txParts>>

\* execute_external_command: expand_variables(command).
ExpandText ==
    /\ pc = "expand"
    /\ txExpanded' = ExpandChars(txCmd, 1, env_vars)
    /\ pc' = "split"
    /\ UNCHANGED <<shellVars, loopVars, osVars, errs, opened, eof,
                   txCommand, txWords, txCmd, txParts>>

\* execute_external_command: expanded.split_whitespace(), the vector that
\* Command::new and Command::args are given.
SplitText ==
    /\ pc = "split"
    /\ txParts' = split_whitespace(txExpanded)
    /\ pc' = "spawn"
    /\ UNCHANGED <<shellVars, loopVars, osVars, errs, opened, eof,
                   txCommand, txWords, txCmd, txExpanded>>

\* ---------------------------------------------------------- specification
\* Shell::run reads a line and execute_command runs it.
ReadBuiltin == \E l \in BuiltinLines : Builtin(l)
ReadExternal == \E l \in ExternalLines : External(l)
ReadPipeline == \E l \in PipeLines : StartPipeline(l)
ReadVarLine == \E l \in VarLines : External(l)
ReadAssign == \E l \in AssignLines : Builtin(l)
ReadRedirLine == \E l \in RedirLines : StartPipeline(l)
ReadMultiLine == \E l \in MultiLines : External(l)

\* The shell on the lines the builtins take.
BuiltinNext ==
    \/ Prompt
    \/ LoopExit
    \/ ReadNothing
    \/ ReadEof
    \/ ReadBuiltin

\* The shell on the lines that start programs, and the programs.
ProcNext ==
    \/ Prompt
    \/ ReadNothing
    \/ ReadExternal
    \/ WaitOne
    \/ ReadPipeline
    \/ SpawnStage
    \/ PipelineEnd
    \/ WaitPipe
    \/ WaitDone
    \/ ChildStep

\* The shell on assignments and on single commands that refer to variables.
VarsNext ==
    \/ Prompt
    \/ LoopExit
    \/ ReadNothing
    \/ ReadAssign
    \/ ReadVarLine
    \/ WaitOne
    \/ ChildStep

\* The shell on pipelines written with redirections, and their programs.
RedirNext ==
    \/ Prompt
    \/ ReadNothing
    \/ ReadRedirLine
    \/ SpawnStage
    \/ PipelineEnd
    \/ WaitPipe
    \/ WaitDone
    \/ ChildStep

\* The shell on single commands written with several redirections of one
\* stream, and their programs.
MultiNext ==
    \/ Prompt
    \/ ReadNothing
    \/ ReadMultiLine
    \/ WaitOne
    \/ ChildStep

Next == BuiltinNext \/ ProcNext \/ VarsNext \/ RedirNext \/ MultiNext

\* The shell on every line.
Spec == Init /\ [][Next]_vars

\* The sessions of builtin lines alone.
SpecBuiltin == Init /\ [][BuiltinNext]_vars

\* The sessions of builtin lines in which the shell process is scheduled
\* again and again and its calls return.
SpecBuiltinFair == SpecBuiltin /\ WF_vars(BuiltinNext)

\* The sessions of lines that start programs alone.
SpecProc == Init /\ [][ProcNext]_vars

\* The sessions of assignments and of commands that refer to variables.
SpecVars == Init /\ [][VarsNext]_vars

\* The sessions of pipelines written with redirections.
SpecRedir == Init /\ [][RedirNext]_vars

\* The sessions of single commands written with several redirections.
SpecMulti == Init /\ [][MultiNext]_vars

\* A single command from its text to its argument vector.
TextNext ==
    \/ ParseText
    \/ ExpandText
    \/ SplitText

SpecText == InitText /\ [][TextNext]_vars

\* ------------------------------------------------------------------ claims
Last(q) == q[Len(q)]

\* The line is one segment whose first word is w.
IsSingle(l, w) == Len(l.segs) = 1 /\ l.segs[1] # <<>> /\ l.segs[1][1] = w

\* The step is execute_command ending: it returns, or the shell process ends.
EndsLine ==
    \/ (pc = "read" /\ nlines' # nlines /\ pc' # "stage")
    \/ (pc = "stage" /\ pc' # "stage")

\* C1: a line that hits a recoverable error (a file that cannot be opened, a
\* program that cannot be started, a failed wait, in a single command or in a
\* stage of a pipeline) leaves the shell process alive with running = true.
C1_ErrorsDoNotEndShell == errs # {} => (pc # "dead" /\ running)

\* C2: when the main loop is at its next iteration (before or after the
\* prompt), every process spawned for a foreground line has terminated.
C2_ForegroundWaited ==
    pc \in {"loop", "read"} =>
        \A p \in DOMAIN procs : ~procs[p].bg => Terminated(p)

\* A foreground pipeline of three spawned stages has been waited for.
C2_Witness ==
    /\ pc = "loop"
    /\ ~cmdline.bg
    /\ Len(processes) = 3
    /\ \A k \in 1..3 : procs[processes[k]].reaped

\* C3: a line ending in " &" that spawns a process returns without waiting
\* and adds exactly one job, the pid of the last spawned stage; a step of a
\* foreground line adds no job.
C3_BackgroundJob ==
    [][/\ (EndsLine /\ cmdline'.bg /\ processes' # <<>>) =>
              /\ pc' = "loop"
              /\ background_pids' = Append(background_pids, Last(processes'))
       /\ (pc # "loop" /\ ~cmdline'.bg) => background_pids' = background_pids
      ]_vars

\* C4: no job whose process the operating system has reported as terminated
\* (waitpid returned its status to the poll) is in the job table.
C4_ReportedJobsAbsent ==
    \A k \in 1..Len(background_pids) : ~procs[background_pids[k]].reaped

\* C5: a foreground pipeline of programs that end once their input is at
\* end-of-file finishes: while the shell waits for a child that runs, some
\* child of the pipeline can take a step.
C5_PipelineFinishes ==
    (pc = "wait" /\ waiting # <<>>) =>
        (Terminated(Head(waiting)) \/ ENABLED ChildStep)

\* A redirection operator is the last token of a segment of the line.
Dangling(l) ==
    \E k \in 1..Len(l.segs) : l.segs[k] # <<>> /\ Last(l.segs[k]) \in RedirOps

\* C6: a line with a redirection operator that no token follows is reported
\* and discarded: it spawns no process and opens no file.
C6_DanglingDiscarded ==
    Dangling(cmdline) =>
        (processes = <<>> /\ opened = {} /\ errs # {})

\* The first line of the session was "a > f", run in the foreground.
FirstWasTruncate ==
    /\ Len(procs) = 2
    /\ procs[1].argv = <<"a">>
    /\ procs[1].outK = "file"
    /\ procs[1].outF = "f"
    /\ ~procs[1].bg

\* The second line seg has run to its end.
SecondDone(seg) ==
    /\ pc = "loop"
    /\ nlines = 2
    /\ cmdline = [bg |-> FALSE, segs |-> <<seg>>]
    /\ Terminated(2)

\* C7: after "a > f" and then "b > f", f holds the output of b alone; after
\* "a > f" and then "b >> f", f holds the output of a followed by that of b.
C7_TruncateThenAppend ==
    /\ (FirstWasTruncate /\ SecondDone(<<"b", ">", "f">>)) =>
           files["f"].data = Script("b")
    /\ (FirstWasTruncate /\ SecondDone(<<"b", ">>", "f">>)) =>
           files["f"].data = Script("a") \o Script("b")

\* C8: no redirection operator, and no token that follows one, is an argument
\* of a spawned program.
C8_OperatorsConsumed ==
    \A p \in DOMAIN procs :
        \A k \in 1..Len(procs[p].argv) :
            /\ procs[p].argv[k] \notin RedirOps
            /\ k > 1 => procs[p].argv[k - 1] \notin RedirOps

\* The step is a cd that printed an error.
FailedCd ==
    /\ pc = "read"
    /\ pc' = "loop"
    /\ IsSingle(cmdline', "cd")
    /\ errs' # {}

\* The step is a cd that printed no error.
SuccessfulCd ==
    /\ pc = "read"
    /\ pc' = "loop"
    /\ IsSingle(cmdline', "cd")
    /\ errs' = {}

\* C9: a cd that fails leaves current_dir and previous_dir as they were, and
\* current_dir equal to the working directory of the shell process.
C9_FailedCdKeepsState ==
    [][FailedCd =>
          /\ current_dir' = current_dir
          /\ previous_dir' = previous_dir
          /\ current_dir' = osCwd'
      ]_vars

\* C10: a successful cd sets previous_dir to the directory it left, a
\* successful "cd -" also sets current_dir to the former previous_dir, and
\* previous_dir changes in a successful cd alone.
C10_PreviousDir ==
    [][/\ SuccessfulCd => previous_dir' = Some(current_dir)
       /\ (SuccessfulCd /\ cmdline'.segs[1] = <<"cd", "-">>) =>
              current_dir' = previous_dir[1]
       /\ previous_dir' # previous_dir => SuccessfulCd
      ]_vars

\* The step is "cd -" taken while previous_dir is unset.
CdDashUnset ==
    /\ pc = "read"
    /\ pc' = "loop"
    /\ IsSingle(cmdline', "cd")
    /\ Len(cmdline'.segs[1]) > 1
    /\ cmdline'.segs[1][2] = "-"
    /\ previous_dir = None

\* C11: previous_dir stays unset until a cd succeeds, and "cd -" taken while
\* it is unset prints an error and leaves current_dir and previous_dir alone.
C11_CdDashWithoutPrevious ==
    [][/\ (previous_dir = None /\ ~SuccessfulCd) => previous_dir' = None
       /\ CdDashUnset =>
              /\ errs' # {}
              /\ current_dir' = current_dir
              /\ previous_dir' = previous_dir
      ]_vars

\* The value the name n stands for: the local one, else that of the process
\* environment, else the empty string.
ValueOf(n) ==
    IF n \in VarNames /\ env_vars[n] # None THEN CharsOf(env_vars[n][1])
    ELSE IF n \in VarNames /\ ProcessEnv[n] # None THEN CharsOf(ProcessEnv[n][1])
    ELSE <<>>

NoDollar(t) == \A k \in 1..Len(t) : t[k] # "$"

\* Character i of t is the '$' of the only reference in t, to the name n.
OnlyRefAt(t, i, n) ==
    /\ t[i] = "$"
    /\ i + 1 <= Len(t)
    /\ t[i + 1] = n
    /\ (i + 2 > Len(t) \/ ~is_alphanumeric(t[i + 2]))
    /\ NoDollar(SubSeq(t, 1, i - 1))
    /\ NoDollar(SubSeq(t, i + 2, Len(t)))

WrittenName(tok) == IF tok = "Y=b" THEN "Y" ELSE "X"
WrittenValue(tok) ==
    IF tok = "X=a" THEN "a" ELSE IF tok = "X=/tmp" THEN "/tmp" ELSE "b"

\* The step runs a line of one segment whose first token is an assignment.
AssignStep ==
    /\ pc = "read"
    /\ pc' = "loop"
    /\ Len(cmdline'.segs) = 1
    /\ cmdline'.segs[1] # <<>>
    /\ cmdline'.segs[1][1] \in AssignTokens

\* The step runs the single command "$n" and spawns a process for it.
RefStep(n) ==
    /\ pc = "read"
    /\ pc' # "read"
    /\ cmdline'.segs \in {<<<<"$X">>>>, <<<<"$Y">>>>}
    /\ VarName(cmdline'.segs[1][1]) = n
    /\ processes' # <<>>

\* C13: a line whose first token is NAME=value sets the variable NAME to value
\* and leaves every other variable, current_dir, previous_dir, running, the
\* job table and the processes as they were; no other step changes a
\* variable, and a command "$NAME" run while NAME is assigned is spawned with
\* the assigned value as its argument vector.
C13_Assignment ==
    [][/\ AssignStep =>
              /\ env_vars'[WrittenName(cmdline'.segs[1][1])]
                     = Some(WrittenValue(cmdline'.segs[1][1]))
              /\ \A n \in VarNames \ {WrittenName(cmdline'.segs[1][1])} :
                     env_vars'[n] = env_vars[n]
              /\ UNCHANGED <<current_dir, previous_dir, osCwd, running,
                             background_pids, procs, pipes, files>>
       /\ env_vars' # env_vars => AssignStep
       /\ \A n \in VarNames :
              (RefStep(n) /\ env_vars[n] # None) =>
                  procs'[processes'[1]].argv = env_vars[n]
      ]_vars

\* "$X" ran program b after X=b and then program a after X=a, and Y, set
\* after a cd and with a job in the table, is not touched by either.
C13_Witness ==
    /\ Len(procs) = 2
    /\ procs[1].argv = <<"b">>
    /\ procs[2].argv = <<"a">>
    /\ cmdline.segs = <<<<"$X">>>>
    /\ env_vars["X"] = Some("a")
    /\ env_vars["Y"] = Some("b")
    /\ current_dir = Tmp
    /\ background_pids # <<>>

\* The step runs a line of one segment whose first word is exit.
ExitStep ==
    /\ pc = "read"
    /\ pc' = "loop"
    /\ IsSingle(cmdline', "exit")

\* C14: the command exit sets running to false, and from then on the shell
\* issues no prompt, reads no line, runs no command and spawns no process:
\* all it can do, and does next, is leave the main loop.
C14_ExitStopsLoop ==
    [][/\ ExitStep => ~running'
       /\ ~running =>
              /\ ~running'
              /\ pc \in {"loop", "done"}
              /\ pc' \in {"loop", "done"}
              /\ pc = "loop" => ENABLED LoopExit
              /\ UNCHANGED <<cmdline, background_pids, nlines>>
              /\ Len(procs') = Len(procs)
      ]_vars

\* The main loop was left after an exit that followed a spawned command.
C14_Witness ==
    /\ pc = "done"
    /\ ~running
    /\ IsSingle(cmdline, "exit")
    /\ Len(procs) > 0

\* C15: once the input stream is at its end, or fails for good, the main
\* loop eventually stops.
C15_EndOfInputEndsSession == eof ~> (pc = "done")

\* The words shell_words::split produced, each with its variables expanded.
ExpandedWords == [k \in 1..Len(txWords) |-> ExpandChars(txWords[k], 1, env_vars)]

\* C16: the argument vector a single command without operators is spawned
\* with is the vector of words the tokenizer produced, each expanded: the
\* same number of arguments with the same content (stated for the commands
\* none of whose words is or expands to the empty string).
C16_ArgvIsTokenized ==
    (pc = "spawn" /\ \A k \in 1..Len(txWords) : ExpandedWords[k] # <<>>) =>
        txParts = ExpandedWords

\* C17: while process_piped_commands waits for its foreground children, and
\* once it has returned or ended the shell, the shell process holds no end of
\* a pipe it created.
C17_NoPipeEndHeld ==
    pc \in {"wait", "loop", "read", "waitone", "dead"} =>
        \A q \in DOMAIN pipes : ~pipes[q].parentRead

\* The segment is written with the operator op followed by a file name.
Redirects(seg, op) == \E k \in 1..(Len(seg) - 1) : seg[k] = op

\* The file name that follows the operator op in the segment.
TargetOf(seg, op) == seg[(CHOOSE k \in 1..(Len(seg) - 1) : seg[k] = op) + 1]

\* The step spawns the stage for segment idx of a pipeline.
StageSpawned == pc = "stage" /\ Len(procs') = Len(procs) + 1

\* C18: a pipeline stage written with "> file" is spawned with its standard
\* output on that file, and a stage written with "< file" with its standard
\* input on a file, whatever the position of the stage.
C18_RedirectionBeatsPipe ==
    [][StageSpawned =>
          /\ Redirects(cmdline.segs[idx], ">") =>
                 /\ procs'[Len(procs')].outK = "file"
                 /\ procs'[Len(procs')].outF = TargetOf(cmdline.segs[idx], ">")
          /\ Redirects(cmdline.segs[idx], "<") =>
                 procs'[Len(procs')].inK = "file"
      ]_vars

\* C19: in a pipeline a stage is spawned with a file as its standard input
\* only if it is the first segment and with a file as its standard output
\* only if it is the last; every stage but the last writes to a pipe and a
\* stage after a spawned one reads that stage's pipe; a step that spawns a
\* stage opens or creates no file but those two.
C19_FilesAtTheEndsOnly ==
    [][/\ StageSpawned =>
              /\ procs'[Len(procs')].inK = "file" => idx = 1
              /\ procs'[Len(procs')].outK = "file" => idx = Len(cmdline.segs)
              /\ idx < Len(cmdline.segs) => procs'[Len(procs')].outK = "pipe"
              /\ previous_stdout # 0 =>
                     /\ idx > 1
                     /\ procs'[Len(procs')].inK = "pipe"
                     /\ procs'[Len(procs')].inP = previous_stdout
       /\ \A n \in FileNames :
              (pc = "stage" /\ ~files[n].exists /\ files'[n].exists) =>
                  /\ idx = Len(cmdline.segs)
                  /\ Redirects(cmdline.segs[idx], ">")
                  /\ n = TargetOf(cmdline.segs[idx], ">")
       /\ (pc = "stage" /\ opened' # opened) =>
              /\ idx \in {1, Len(cmdline.segs)}
              /\ opened' \ opened \subseteq
                     (IF idx = 1 /\ Redirects(cmdline.segs[idx], "<")
                      THEN {TargetOf(cmdline.segs[idx], "<")} ELSE {})
                     \cup (IF idx = Len(cmdline.segs) /\ Redirects(cmdline.segs[idx], ">")
                           THEN {TargetOf(cmdline.segs[idx], ">")} ELSE {})
      ]_vars

\* "cat < g | b > f | b > f" has run: the first stage read the file g, the
\* second wrote to its pipe though written with "> f", the third wrote f.
C19_Witness ==
    /\ pc = "loop"
    /\ cmdline.segs = <<<<"cat", "<", "g">>, <<"b", ">", "f">>, <<"b", ">", "f">>>>
    /\ Len(processes) = 3
    /\ procs[processes[1]].inK = "file"
    /\ procs[processes[2]].inK = "pipe"
    /\ procs[processes[2]].outK = "pipe"
    /\ procs[processes[3]].outK = "file"
    /\ files["f"].data = Script("b")

\* The step is a stage of a pipeline failing to spawn.
StageSpawnFails ==
    /\ pc = "stage"
    /\ "Failed to execute command" \in errs'
    /\ "Failed to execute command" \notin errs

\* C20: when a stage of a pipeline fails to spawn, the stages spawned before
\* it are left as they are, no process is added, and the shell process goes
\* on (to wait for the spawned stages or to the next prompt).
C20_SpawnFailureAbandonsRest ==
    [][StageSpawnFails =>
          /\ procs' = procs
          /\ processes' = processes
          /\ pc' # "dead"
      ]_vars

\* The step runs the line "cd $X" while X is assigned the path /tmp.
CdOfVariable ==
    /\ pc = "read"
    /\ pc' = "loop"
    /\ cmdline'.segs = <<<<"cd", "$X">>>>
    /\ env_vars["X"] = Some("/tmp")

\* C21: the argument of cd is expanded before the builtin is dispatched:
\* after "X=/tmp" the line "cd $X" resolves /tmp and enters it.
C21_CdArgumentExpanded ==
    [][CdOfVariable =>
          /\ errs' = {}
          /\ current_dir' = Tmp
          /\ osCwd' = Tmp
      ]_vars

\* The file names that follow the operator op in the segment, in order.
RECURSIVE TargetsFrom(_, _, _)
TargetsFrom(seg, op, i) ==
    IF i >= Len(seg) THEN <<>>
    ELSE IF seg[i] = op THEN <<seg[i + 1]>> \o TargetsFrom(seg, op, i + 2)
    ELSE TargetsFrom(seg, op, i + 1)

\* The step runs a single command written with several targets for op.
RunsSeveral(op) ==
    /\ pc = "read"
    /\ pc' # "read"
    /\ Len(cmdline'.segs) = 1
    /\ Len(TargetsFrom(cmdline'.segs[1], op, 1)) > 1

\* The step opens, creates or truncates no target of op but the last one.
OnlyLastTouched(op) ==
    LET ts == TargetsFrom(cmdline'.segs[1], op, 1)
    IN  /\ opened' \cap SeqSet(ts) \subseteq {Last(ts)}
        /\ \A n \in SeqSet(ts) \ {Last(ts)} : files'[n] = files[n]

C23_EveryChildReaped ==
    pc \in {"loop", "read"} =>
        \A p \in DOMAIN procs :
            procs[p].reaped \/ p \in SeqSet(background_pids)

====
